---------------------------- MODULE Spec2Model ----------------------------
(***************************************************************************)
(* A model of sw/Autogressive.py: the AutoregressiveWrapper around a       *)
(* scoring network (self.net), its decoding loop generate (wrapped by      *)
(* eval_decorator), the top_k truncation helper and the loss wrapper       *)
(* forward.                                                                *)
(*                                                                         *)
(* Tensors of shape (batch, length) are functions from Rows to sequences   *)
(* of tokens; a row of scores is a function from Vocab (the indices of the *)
(* last axis, which are also the token ids torch.multinomial draws).       *)
(* filter_thres is held in quarters (filter_thres = q / 4) and temperature *)
(* as an integer: for these values the float arithmetic of                 *)
(* int((1 - thres) * logits.shape[-1]) is exact (the default 0.9 is not    *)
(* such a value and is not among the thresholds drawn).                    *)
(***************************************************************************)
EXTENDS Integers, Sequences, FiniteSets

\* ------------------------------------------------------------- bounds
\* the largest seq_len, and the longest start_tokens / x, a call is made with
MaxSteps == 2
MaxPrefix == 2

\* the batch elements, and the vocabulary of the wrapped network
Rows == {1, 2}
Vocab == {0, 1, 2}
VocabSize == Cardinality(Vocab)

\* A name that is not bound: None for the names of strings, a tensor of no
\* column for the names of (batch, length) tensors, the empty function for
\* the names of score tensors and samples.
None == "None"
NoTensor == [r \in Rows |-> <<>>]
NoScores == << >>

\* pad_value's default in AutoregressiveWrapper.__init__
PadValue == 0

\* Values of the call's parameters.
StartTokenValues == {0, 1}
\* eos_token=None, the default: no token id, so that out == eos_token is
\* nowhere true
NoEos == -1
\* no eos_token, the pad value as eos_token, another token as eos_token
EosChoices == {NoEos, 0, 1}
Temperatures == {-1, 0, 1}
\* filter_thres in quarters: -0.5, 0, 0.25, 0.5, 0.75, 1, 1.5
FilterThresQuarters == {-2, 0, 1, 2, 3, 4, 6}

\* The rows of scores the network may return for a batch element: strictly
\* increasing scores (negative, zero and positive ones), and all scores tied.
Ascending == [i \in Vocab |-> i - 1]
Tied == [i \in Vocab |-> 0]
ScoreRows == {Ascending, Tied}

\* ------------------------------------------------------------- values
\* A score after truncation: a finite score, or float("-inf").
Fin(x) == [cls |-> "fin", v |-> x]
NegInf == [cls |-> "-inf", v |-> 0]

\* Python's int() of the fraction n / d (d > 0): truncation towards zero.
IntTrunc(n, d) == IF n >= 0 THEN n \div d ELSE -((-n) \div d)

\* k = int((1 - thres) * logits.shape[-1]), thres = q / 4
TopKCount(q, V) == IntTrunc((4 - q) * V, 4)

\* torch.topk(logits, k) raises (selected index k out of range) unless
\* 0 <= k <= logits.shape[-1].
TopKInRange(k, V) == k >= 0 /\ k <= V

\* Faulty variant, for sensitivity: torch.topk with largest=False: the indices of k smallest entries
BottomKIndexSets(row, k) ==
    {S \in SUBSET (DOMAIN row) :
        /\ Cardinality(S) = k
        /\ \A i \in S : \A j \in (DOMAIN row) \ S : row[i] <= row[j]}

\* torch.topk on one row: the indices of k largest entries. Which of several
\* equal scores are taken is not specified, so every choice is possible.
TopKIndexSets(row, k) ==
    {S \in SUBSET (DOMAIN row) :
        /\ Cardinality(S) = k
        /\ \A i \in S : \A j \in (DOMAIN row) \ S : row[i] >= row[j]}

\* probs = full_like(logits, -inf); probs.scatter_(1, ind, val), for one row
Scatter(row, ind) == [i \in DOMAIN row |-> IF i \in ind THEN Fin(row[i]) ELSE NegInf]

\* top_k(logits, thres): every tensor it may return (one choice of indices per row)
TopKResults(lg, q) ==
    LET k == TopKCount(q, VocabSize)
        ind == {c \in [Rows -> SUBSET Vocab] : \A r \in Rows : c[r] \in TopKIndexSets(lg[r], k)}
    IN  {[r \in Rows |-> Scatter(lg[r], c[r])] : c \in ind}

\* One entry of filtered_logits / temperature, as the class of the float it
\* yields: x / 0 is +inf, -inf or nan by the sign of x, and -inf / T is +inf
\* for T < 0.
Scale(e, T) ==
    IF e.cls = "-inf"
    THEN (IF T < 0 THEN "+inf" ELSE "-inf")
    ELSE IF T # 0 THEN "fin"
         ELSE IF e.v > 0 THEN "+inf" ELSE IF e.v < 0 THEN "-inf" ELSE "nan"

\* F.softmax over one row of scaled scores: nan everywhere when an entry is
\* nan or +inf (exp(inf - inf)) or when every entry is -inf (0 / 0);
\* otherwise a positive probability on the finite entries and zero on -inf.
SoftmaxRow(row, T) ==
    LET s == [i \in DOMAIN row |-> Scale(row[i], T)]
    IN  IF \/ \E i \in DOMAIN row : s[i] \in {"nan", "+inf"}
           \/ \A i \in DOMAIN row : s[i] = "-inf"
        THEN [i \in DOMAIN row |-> "nan"]
        ELSE [i \in DOMAIN row |-> IF s[i] = "fin" THEN "pos" ELSE "zero"]

Softmax(fl, T) == [r \in DOMAIN fl |-> SoftmaxRow(fl[r], T)]

\* torch.multinomial rejects a tensor holding nan
HasNaN(p) == \E r \in DOMAIN p : \E i \in DOMAIN p[r] : p[r][i] = "nan"

\* the samples torch.multinomial(probs, 1) may draw: per row an index of
\* positive probability
Samples(p) == {s \in [DOMAIN p -> Vocab] : \A r \in DOMAIN p : p[r][s[r]] = "pos"}

\* torch.cat((out, sample), dim=-1)
Cat(o, s) == [r \in DOMAIN o |-> Append(o[r], s[r])]

\* is_eos_token.any(dim=-1).all()
HasEos(row, eos) == \E j \in 1..Len(row) : row[j] = eos
\* Faulty variant, for sensitivity: is_eos_token.any(): some row holds eos_token
AnyHasEos(o, eos) == \E r \in DOMAIN o : HasEos(o[r], eos)
AllHaveEos(o, eos) == \A r \in DOMAIN o : HasEos(o[r], eos)

\* mask = F.pad(is_eos_token, (1, -1)).float().cumsum(dim=-1) >= 1, at column j
\* of a row: some column before j holds eos_token.
Mask(row, eos, j) == \E i \in 1..(j - 1) : row[i] = eos

\* out.masked_fill(mask, self.pad_value)
MaskedFill(o, eos, pad) ==
    [r \in DOMAIN o |->
        [j \in 1..Len(o[r]) |-> IF Mask(o[r], eos, j) THEN pad ELSE o[r][j]]]

\* Faulty variant, for sensitivity: out[:, t - 1:]: the last column of the prefix is returned too
SliceFromLastOfPrefix(o, t) == [r \in DOMAIN o |-> SubSeq(o[r], t, Len(o[r]))]

\* out[:, t:]
Slice(o, t) == [r \in DOMAIN o |-> SubSeq(o[r], t + 1, Len(o[r]))]

\* torch.cat and masked_fill return a newly allocated tensor: the name out is
\* rebound to it, and the tensor out named before is left as it was.
\* Faulty variant, for sensitivity: the column is appended to the tensor out names, in place
CatInPlace(ref) == ref
CatResultRef(ref) == "tmp"
MaskedFillResultRef(ref) == "tmp"

\* ------------------------------------------------------------- state
VARIABLES
    training,       \* self.training of the wrapper
    net_training,   \* self.net.training
    pad_value,      \* self.pad_value
    pc,             \* where the call in progress stands
    was_training,   \* eval_decorator's local (FALSE until bound)
    net_before,     \* history: self.net.training when the call was made
    start_tokens,   \* the caller's tensor: start_tokens of generate, x of forward
    start_before,   \* history: its content when the call was made
    tmp,            \* the tensor torch.cat / masked_fill allocated last
    out,            \* which tensor the local out names: "start_tokens" or "tmp"
    t,              \* start_tokens.shape[1]
    seq_len, eos_token, temperature, filter_thres,
    i,              \* iterations of the for loop begun
    broke,          \* the loop was left by break
    calls,          \* history: calls of self.net made
    net_arg,        \* history: the argument of the last call of self.net
    logits, filtered_logits, probs, sample,
    x_labels,       \* forward's local
    ret,            \* the tensor generate returned
    loss,           \* the loss forward returned
    exc             \* the exception that left the call

vars == <<training, net_training, pad_value, pc, was_training, net_before,
          start_tokens, start_before, tmp, out, t, seq_len, eos_token,
          temperature, filter_thres, i, broke, calls, net_arg, logits,
          filtered_logits, probs, sample, x_labels, ret, loss, exc>>

modes == <<training, net_training>>
params == <<t, seq_len, eos_token, temperature, filter_thres, start_before, net_before>>
locals == <<logits, filtered_logits, probs>>
results == <<ret, loss, exc>>

\* the tensor the local out names
Out == IF out = "start_tokens" THEN start_tokens ELSE tmp

\* AutoregressiveWrapper.__init__ (an nn.Module starts in training mode)
Init ==
    /\ training = TRUE
    /\ net_training = TRUE
    /\ pad_value = PadValue
    /\ pc = "idle"
    /\ was_training = FALSE
    /\ net_before = FALSE
    /\ start_tokens = NoTensor
    /\ start_before = NoTensor
    /\ tmp = NoTensor
    /\ out = None
    /\ t = 0
    /\ seq_len = 0
    /\ eos_token = NoEos
    /\ temperature = 1
    /\ filter_thres = 0
    /\ i = 0
    /\ broke = FALSE
    /\ calls = 0
    /\ net_arg = NoTensor
    /\ logits = NoScores
    /\ filtered_logits = NoScores
    /\ probs = NoScores
    /\ sample = NoScores
    /\ x_labels = NoTensor
    /\ ret = NoTensor
    /\ loss = None
    /\ exc = None

\* The locals of a frame that an exception or a return has left.
DropLocals ==
    /\ logits' = NoScores
    /\ filtered_logits' = NoScores
    /\ probs' = NoScores

\* nn.Module.train(mode) on the wrapper sets the mode of the wrapper and of
\* its child module self.net; eval() is train(False).
WrapperTrain(mode) ==
    /\ training' = mode
    /\ net_training' = mode

\* model.train(was_training), the last statement of eval_decorator's inner
RestoreMode == WrapperTrain(was_training)

\* An exception leaves eval_decorator's inner, which has no handler: nothing
\* of inner runs after fn raised.
RaiseThroughDecorator == UNCHANGED modes

\* The caller sets the mode of the wrapper: wrapper.train(mode) / wrapper.eval()
SetWrapperMode ==
    /\ pc = "idle"
    /\ \E mode \in BOOLEAN : WrapperTrain(mode)
    /\ UNCHANGED <<pad_value, pc, was_training, start_tokens, tmp, out, i, broke,
                   calls, net_arg, sample, x_labels, results, params, locals>>

\* The caller sets the mode of the wrapped network alone: net.train(mode) / net.eval()
SetNetMode ==
    /\ pc = "idle"
    /\ \E mode \in BOOLEAN : net_training' = mode
    /\ UNCHANGED <<training, pad_value, pc, was_training, start_tokens, tmp, out, i,
                   broke, calls, net_arg, sample, x_labels, results, params, locals>>

\* The (batch, length) tensors of the given lengths over StartTokenValues
Tensors(lengths) == UNION {[Rows -> [1..n -> StartTokenValues]] : n \in lengths}

\* The tensors the caller may pass as start_tokens
StartTensors == Tensors(1..MaxPrefix)

\* generate is called: eval_decorator's inner records model.training and calls
\* model.eval(), then generate reads the shape and binds out to start_tokens.
\* (torch.no_grad() switches gradient recording, which is not part of the model.)
GenerateCallWith(starts, lens, eoss, temps, thress) ==
    /\ pc = "idle"
    /\ \E st \in starts, n \in lens, eos \in eoss, T \in temps, q \in thress :
        /\ start_tokens' = st
        /\ start_before' = st
        /\ t' = Len(st[1])
        /\ seq_len' = n
        /\ eos_token' = eos
        /\ temperature' = T
        /\ filter_thres' = q
    /\ was_training' = training
    /\ net_before' = net_training
    /\ WrapperTrain(FALSE)
    /\ out' = "start_tokens"
    /\ i' = 0
    /\ broke' = FALSE
    /\ pc' = "for"
    /\ UNCHANGED <<pad_value, tmp, calls, net_arg, sample, x_labels, results, locals>>

GenerateCall ==
    GenerateCallWith(StartTensors, 0..MaxSteps, EosChoices, Temperatures,
                     FilterThresQuarters)

\* The loop begins an iteration and self.net(out) returns its scores, of which
\* [:, -1, :] is kept.
NetCall ==
    /\ pc = "for" /\ ~broke /\ i < seq_len
    /\ i' = i + 1
    /\ calls' = calls + 1
    /\ net_arg' = Out
    /\ \E lg \in [Rows -> ScoreRows] : logits' = lg
    /\ pc' = "top_k"
    /\ UNCHANGED <<modes, pad_value, was_training, start_tokens, tmp, out, broke,
                   filtered_logits, probs, sample, x_labels, results, params>>

\* self.net(out) raises: the exception leaves generate and eval_decorator's inner.
NetRaise ==
    /\ pc = "for" /\ ~broke /\ i < seq_len
    /\ i' = i + 1
    /\ calls' = calls + 1
    /\ net_arg' = Out
    /\ exc' = "ScorerError"
    /\ pc' = "raised"
    /\ RaiseThroughDecorator
    /\ DropLocals
    /\ UNCHANGED <<pad_value, was_training, start_tokens, tmp, out, broke, sample,
                   x_labels, ret, loss, params>>

\* filtered_logits = top_k(logits, thres=filter_thres)
\* probs = F.softmax(filtered_logits / temperature, dim=-1)
TopK ==
    /\ pc = "top_k"
    /\ TopKInRange(TopKCount(filter_thres, VocabSize), VocabSize)
    /\ \E f \in TopKResults(logits, filter_thres) :
        /\ filtered_logits' = f
        /\ probs' = Softmax(f, temperature)
    /\ pc' = "multinomial"
    /\ UNCHANGED <<modes, pad_value, was_training, start_tokens, tmp, out, i, broke,
                   calls, net_arg, logits, sample, x_labels, results, params>>

\* torch.topk raises inside top_k
TopKRaise ==
    /\ pc = "top_k"
    /\ ~TopKInRange(TopKCount(filter_thres, VocabSize), VocabSize)
    /\ exc' = "RuntimeError: selected index k out of range"
    /\ pc' = "raised"
    /\ RaiseThroughDecorator
    /\ DropLocals
    /\ UNCHANGED <<pad_value, was_training, start_tokens, tmp, out, i, broke,
                   calls, net_arg, sample, x_labels, ret, loss, params>>

\* A tensor is written at ref: the caller's tensor or the temporary.
Store(ref, val) ==
    IF ref = "start_tokens"
    THEN start_tokens' = val /\ tmp' = tmp
    ELSE tmp' = val /\ start_tokens' = start_tokens

\* sample = torch.multinomial(probs, 1)
\* out = torch.cat((out, sample), dim=-1), then the eos_token test: when every
\* row holds eos_token, out = out.masked_fill(mask, self.pad_value) and break.
Multinomial ==
    /\ pc = "multinomial"
    /\ ~HasNaN(probs)
    /\ \E s \in Samples(probs) :
        LET appended == Cat(Out, s)
            stop == eos_token # NoEos /\ AllHaveEos(appended, eos_token)
            ref == IF stop THEN MaskedFillResultRef(CatResultRef(out))
                           ELSE CatResultRef(out)
        IN  /\ sample' = s
            /\ Store(ref, IF stop THEN MaskedFill(appended, eos_token, pad_value)
                                  ELSE appended)
            /\ out' = ref
            /\ broke' = stop
    /\ DropLocals
    /\ pc' = "for"
    /\ UNCHANGED <<modes, pad_value, was_training, i, calls, net_arg, x_labels,
                   results, params>>

\* torch.multinomial raises on a nan probability
MultinomialRaise ==
    /\ pc = "multinomial"
    /\ HasNaN(probs)
    /\ exc' = "RuntimeError: probability tensor contains either inf, nan or element < 0"
    /\ pc' = "raised"
    /\ RaiseThroughDecorator
    /\ DropLocals
    /\ UNCHANGED <<pad_value, was_training, start_tokens, tmp, out, i, broke,
                   calls, net_arg, sample, x_labels, ret, loss, params>>

\* The loop is over (range exhausted, or break): generate returns out[:, t:],
\* and eval_decorator's inner calls model.train(was_training) and returns it.
Return ==
    /\ pc = "for" /\ (broke \/ i >= seq_len)
    /\ ret' = Slice(Out, t)
    /\ RestoreMode
    /\ pc' = "returned"
    /\ UNCHANGED <<pad_value, was_training, start_tokens, tmp, out, i, broke, calls,
                   net_arg, sample, x_labels, loss, exc, params, locals>>

\* ------------------------------------------------------------- forward
\* x[:, :-1] and x[:, 1:]
AllButLast(x) == [r \in DOMAIN x |-> SubSeq(x[r], 1, Len(x[r]) - 1)]
AllButFirst(x) == [r \in DOMAIN x |-> SubSeq(x[r], 2, Len(x[r]))]

\* F.cross_entropy with its default mean reduction, as the class of its
\* value: the mean over no element is nan.
CrossEntropy(labels) ==
    IF \A r \in DOMAIN labels : Len(labels[r]) = 0 THEN "nan" ELSE "finite"

\* The tensors the caller may pass to forward
ForwardTensors == Tensors(0..MaxPrefix)

\* forward is called: x is split and self.net(x_inp) is called.
ForwardCall ==
    /\ pc = "idle"
    /\ \E x \in ForwardTensors :
        /\ start_tokens' = x
        /\ start_before' = x
        /\ net_arg' = AllButLast(x)
        /\ x_labels' = AllButFirst(x)
    /\ net_before' = net_training
    /\ calls' = calls + 1
    /\ pc' = "forward"
    /\ UNCHANGED <<modes, pad_value, was_training, tmp, out, t, seq_len, eos_token,
                   temperature, filter_thres, i, broke, sample, results, locals>>

\* self.net(x_inp) returns and forward returns the cross entropy
ForwardReturn ==
    /\ pc = "forward"
    /\ loss' = CrossEntropy(x_labels)
    /\ pc' = "loss"
    /\ UNCHANGED <<modes, pad_value, was_training, start_tokens, tmp, out, i, broke,
                   calls, net_arg, sample, x_labels, ret, exc, params, locals>>

\* self.net(x_inp) raises
ForwardRaise ==
    /\ pc = "forward"
    /\ exc' = "ScorerError"
    /\ pc' = "raised"
    /\ UNCHANGED <<modes, pad_value, was_training, start_tokens, tmp, out, i, broke,
                   calls, net_arg, sample, x_labels, ret, loss, params, locals>>

\* ------------------------------------------------------------- specifications
Next ==
    \/ GenerateCall
    \/ NetCall
    \/ NetRaise
    \/ TopK
    \/ TopKRaise
    \/ Multinomial
    \/ MultinomialRaise
    \/ Return
    \/ ForwardCall
    \/ ForwardReturn
    \/ ForwardRaise

\* The wrapper as constructed, every call of generate and of forward.
Spec == Init /\ [][Next]_vars

\* Calls of generate on one start tensor of one column, made in any modes of
\* the wrapper and of the wrapped network.
GenerateCallInAnyMode ==
    GenerateCallWith({[r \in Rows |-> <<1>>]}, 0..MaxSteps, {NoEos, 1}, Temperatures,
                     FilterThresQuarters)

NextModes ==
    \/ SetWrapperMode
    \/ SetNetMode
    \/ GenerateCallInAnyMode
    \/ NetCall
    \/ NetRaise
    \/ TopK
    \/ TopKRaise
    \/ Multinomial
    \/ MultinomialRaise
    \/ Return

SpecModes == Init /\ [][NextModes]_vars

\* ------------------------------------------------------------- properties
\* generate has been called (forward never binds out)
InGenerate == out # None

\* the row holds the terminator somewhere
RowHasTerminator(row) == \E j \in 1..Len(row) : row[j] = eos_token

\* every position of the row after a terminator holds the pad value
PaddedAfterTerminator(row) ==
    \A j \in 1..Len(row) :
        (\E j0 \in 1..(j - 1) : row[j0] = eos_token) => row[j] = pad_value

\* temperature <= 0, or filterThreshold outside (0, 1)
InvalidConfiguration == temperature <= 0 \/ filter_thres <= 0 \/ filter_thres >= 4

\* C1: however a call of generate exits (return, or an exception of the
\* network, of truncation or of sampling), the wrapped network is afterwards
\* in the mode it was in before the call. (Stated of the calls with a valid
\* temperature and threshold.)
C1_ModeRestoredOnEveryExit ==
    (InGenerate /\ ~InvalidConfiguration /\ pc \in {"returned", "raised"}) =>
        net_training = net_before

\* C2: whatever the modes of the wrapper and of the network before the call,
\* the network is in inference mode when generate queries it, and after a
\* normal return it is in the mode the network itself had before the call.
\* (Stated of the calls with a valid temperature and threshold.)
C2_InferenceDuringThenOwnModeRestored ==
    /\ (InGenerate /\ ~InvalidConfiguration /\ pc = "top_k") => ~net_training
    /\ (InGenerate /\ ~InvalidConfiguration /\ pc = "returned") =>
          net_training = net_before

\* C3: when generate returns normally with a terminator supplied, every
\* position after a terminator holds the pad value, in every batch element.
\* Stated of the returned suffix alone and of calls with a valid temperature
\* and threshold and a terminator other than the pad value, the least the
\* claim says: a terminator that generate itself emitted is followed by pad
\* values only.
C3_PadAfterTerminatorOnReturn ==
    (pc = "returned" /\ ~InvalidConfiguration /\ eos_token \notin {NoEos, pad_value}) =>
        \A r \in Rows : PaddedAfterTerminator(ret[r])

\* C4: the returned suffix has as many columns as steps were executed, which
\* is seq_len (with seq_len queries of the network) unless the terminator
\* stopped the loop early, and then at most seq_len; it holds the columns
\* after the first t of the final sequence and none of the prefix; with
\* seq_len = 0 it is empty and the network was never queried.
C4_SuffixLength ==
    pc = "returned" =>
        /\ calls = i
        /\ i <= seq_len
        /\ ~broke => i = seq_len
        /\ broke => (eos_token # NoEos /\ i >= 1)
        /\ seq_len = 0 => calls = 0
        /\ \A r \in Rows :
            /\ Len(ret[r]) = i
            /\ Len(Out[r]) = t + i
            /\ \A j \in 1..i : ret[r][j] = Out[r][t + j]

\* C4's case: the terminator stopped the loop before seq_len steps
C4_Witness_EarlyStop ==
    /\ pc = "returned" /\ broke /\ i < seq_len /\ ~InvalidConfiguration
    /\ \A r \in Rows : Len(ret[r]) = i

\* C5: with a terminator supplied, after each executed step the loop has
\* stopped exactly when every batch element holds a terminator somewhere in
\* its sequence (start tokens included); no step is begun after the stop;
\* and at the stop every element holds pad values after its first terminator.
C5_StopsExactlyWhenAllTerminated ==
    /\ (pc \in {"for", "returned"} /\ eos_token # NoEos /\ i >= 1) =>
          (broke <=> \A r \in Rows : RowHasTerminator(Out[r]))
    /\ (pc \in {"for", "returned"} /\ broke) =>
          \A r \in Rows : PaddedAfterTerminator(Out[r])
    /\ (pc \in {"top_k", "multinomial"}) => ~broke

\* C5's case: element 1 emitted its terminator at step 1, element 2 at step
\* 2; the loop went on to step 2 and element 1 is padded after its terminator.
C5_Witness_StaggeredTerminators ==
    /\ pc = "for" /\ broke /\ i = 2 /\ eos_token # pad_value /\ ~InvalidConfiguration
    /\ ~RowHasTerminator(start_before[1]) /\ ~RowHasTerminator(start_before[2])
    /\ Out[1][t + 1] = eos_token /\ Out[1][t + 2] = pad_value
    /\ Out[2][t + 1] # eos_token /\ Out[2][t + 2] = eos_token

\* floor((1 - filterThreshold) * V)
KFloor == ((4 - filter_thres) * VocabSize) \div 4

\* the entries of a truncated row that are finite
FiniteEntries(row) == {v \in DOMAIN row : row[v].cls = "fin"}

\* what truncation has left of the scores, when k > 0
TruncationKeepsTopK ==
    (pc = "multinomial" /\ KFloor > 0) =>
        \A r \in Rows :
            /\ Cardinality(FiniteEntries(filtered_logits[r])) = KFloor
            /\ \A v \in FiniteEntries(filtered_logits[r]) :
                /\ filtered_logits[r][v].v = logits[r][v]
                /\ \A w \in Vocab \ FiniteEntries(filtered_logits[r]) :
                    logits[r][v] >= logits[r][w]
            /\ \A w \in Vocab \ FiniteEntries(filtered_logits[r]) :
                filtered_logits[r][w] = NegInf

\* the token drawn in a step is one truncation kept
DrawnAmongKept ==
    (pc = "multinomial" /\ pc' = "for") =>
        \A r \in Rows : sample'[r] \in FiniteEntries(filtered_logits[r])

\* C6: with k = floor((1 - filterThreshold) * V) > 0, truncation leaves
\* exactly k finite entries, the k highest scores, unchanged, every other
\* entry is negative infinity, and the token drawn in the step is one of
\* the k.
C6_TopKTruncation == []TruncationKeepsTopK /\ [][DrawnAmongKept]_vars

\* C6's case: truncation with 0 < k < V was applied and the tokens drawn from
\* what it kept were appended
C6_Witness_Drawn ==
    /\ pc = "for" /\ i >= 1 /\ ~broke /\ ~InvalidConfiguration
    /\ KFloor > 0 /\ KFloor < VocabSize
    /\ \A r \in Rows : Out[r][t + i] = sample[r]

\* C7: with k == 0, generate raises DegenerateDistribution at the truncation
\* step: normalization is not run on rows of negative infinity, no nan
\* distribution is produced, no other error comes out of the step. (Stated
\* of the calls with a valid temperature and threshold.)
C7_DegenerateRaisedAtTruncation ==
    (InGenerate /\ ~InvalidConfiguration /\ KFloor = 0) =>
        /\ pc # "multinomial"
        /\ pc = "raised" => exc \in {"DegenerateDistribution", "ScorerError"}

\* C8: generate never returns a token suffix when temperature <= 0 or
\* filterThreshold is outside (0, 1). (Stated of the calls that executed a
\* step, whose suffix holds a token.)
C8_InvalidConfigurationRejected ==
    (pc = "returned" /\ i >= 1) => ~InvalidConfiguration

\* C9: forward returns no loss for a sequence of length < 2; for a longer
\* one it queries the network once, on all tokens but the last, and scores
\* against all tokens but the first.
C9_LossNeedsTwoTokens ==
    /\ pc = "loss" => \A r \in Rows : Len(start_before[r]) >= 2
    /\ (pc \in {"forward", "loss"} /\ \A r \in Rows : Len(start_before[r]) >= 2) =>
          /\ calls = 1
          /\ \A r \in Rows :
              /\ Len(net_arg[r]) = Len(start_before[r]) - 1
              /\ Len(x_labels[r]) = Len(start_before[r]) - 1
              /\ \A j \in 1..Len(net_arg[r]) : net_arg[r][j] = start_before[r][j]
              /\ \A j \in 1..Len(x_labels[r]) : x_labels[r][j] = start_before[r][j + 1]

\* C10: generate leaves the caller's start_tokens as it was, and every
\* sequence it passes to the network begins with the start tokens.
C10_StartTokensUntouched ==
    InGenerate =>
        /\ start_tokens = start_before
        /\ calls >= 1 =>
              \A r \in Rows : \A j \in 1..t : net_arg[r][j] = start_before[r][j]

\* C10's case: the terminator lies inside the start tokens, so that the pad
\* mask covered a column of the prefix that held another value, and the
\* loop stopped.
C10_Witness_MaskOverPrefix ==
    /\ pc = "returned" /\ broke
    /\ \E r \in Rows : \E j \in 2..t :
        /\ start_before[r][j - 1] = eos_token
        /\ start_before[r][j] # pad_value
        /\ Out[r][j] = pad_value
        /\ start_tokens[r][j] # pad_value

=============================================================================
